---- MODULE Spec2Model ----
(***************************************************************************)
(* Model of the data.gov.lv entity provider (DataGovLvProvider): one run   *)
(* lists the dataset identifiers, fetches every dataset through the shared *)
(* p-queue, probes a schema for every resource of every accepted dataset,  *)
(* publishes one Delta per accepted dataset and a terminating Full.        *)
(* The upstream portal is the variable world, fixed for a behaviour; the   *)
(* order in which requests and sink calls complete is nondeterministic.    *)
(***************************************************************************)
EXTENDS Integers, Sequences, FiniteSets, TLC

\* ------------------------------------------------------------------ bounds

\* identifiers the listing returns, at most
MaxDatasets == 2
\* resources declared by all the detail records of one listing together, at most
MaxResources == 2

\* ------------------------------------------------------- program constants

\* new PQueue({ concurrency: 10 })
Concurrency == 10

API_SHOW == "package_show"
GEOJSON_SCHEMA_URL == "https://geojson.org/schema/GeoJSON.json"
\* the text the GeoJSON schema document answers with
GeoJsonText == <<"GeoJSON.json">>

\* schema infos are records; definitions and names are tuples
NoSchema == [type |-> "none", definition |-> <<>>]
Undefined == [type |-> "undefined", definition |-> <<>>]
AwaitFetch == [type |-> "fetch", definition |-> <<>>]

\* ---------------------------------------------------------------- upstream

DatasetName(i) == <<"ds", i>>
ResourceId(i, j) == <<"res", i, j>>

\* What one resource's requests answer: probe is the datastore_info answer
\* ("schema": 200 with a schema, "notfound": 404, "throw": the request or its
\* JSON parse rejects), url the resource URL, geoOk whether a download of the
\* GeoJSON schema document succeeds, state the resource's state field.
\* URLs are character sequences, so that endsWith is computed
UrlCsv == <<"f", ".", "c", "s", "v">>
UrlPdf == <<"f", ".", "p", "d", "f">>
UrlXml == <<"f", ".", "x", "m", "l">>
UrlGeoJson == <<"f", ".", "g", "e", "o", "j", "s", "o", "n">>

ResourceKinds ==
  { [probe |-> "schema",   url |-> UrlGeoJson, geoOk |-> TRUE,  state |-> "active"],
    [probe |-> "notfound", url |-> UrlCsv,     geoOk |-> TRUE,  state |-> "active"],
    [probe |-> "notfound", url |-> UrlPdf,     geoOk |-> TRUE,  state |-> "deleted"],
    [probe |-> "notfound", url |-> UrlXml,     geoOk |-> TRUE,  state |-> "draft"],
    [probe |-> "notfound", url |-> UrlGeoJson, geoOk |-> TRUE,  state |-> "active"],
    [probe |-> "notfound", url |-> UrlGeoJson, geoOk |-> FALSE, state |-> "deleted"],
    [probe |-> "throw",    url |-> UrlXml,     geoOk |-> TRUE,  state |-> "active"] }

Resource(i, j, k) ==
  [id |-> ResourceId(i, j), probe |-> k.probe, url |-> k.url, geoOk |-> k.geoOk,
   state |-> k.state]

\* the kinds of the resources after a dataset's first: one per outcome of
\* createApis (a schema, no schema, an error)
SiblingKinds ==
  { k \in ResourceKinds : k.probe \in {"schema", "throw"} \/ k.url = UrlPdf }

\* the resource lists of dataset i with exactly n resources
ResourceLists(i, n) ==
  { [j \in 1..n |-> Resource(i, j, ks[j])] :
      ks \in { f \in [1..n -> ResourceKinds] : \A j \in 2..n : f[j] \in SiblingKinds } }

Orgs == { <<"org", 1>>, <<"org", 2>> }
\* the organizations the dataset at position i may belong to: the first one's
\* is the others' or another one
OrgsAt(i) == IF i = 1 THEN Orgs ELSE { <<"org", 1>> }

\* tag names are character sequences, so that toLowerCase is computed: a list
\* without tags, and one of names in mixed case, repeated and differing only in case
TagLists == { <<>>, << <<"A", "b">>, <<"a", "b">>, <<"c">>, <<"a", "b">> >> }
\* the tag lists the record at position i may declare
TagsAt(i) == IF i = 1 THEN TagLists ELSE { <<>> }
\* the tag list the datasets of organization o declare
TagsOf(o) == IF o = <<"org", 1>> THEN <<>> ELSE CHOOSE ts \in TagLists : ts # <<>>
\* the state field of the datasets of organization o
StateOf(o) == IF o = <<"org", 1>> THEN "active" ELSE "draft"

\* a resource list nobody may probe: the one a record of another type carries
PlainResources(i, n) ==
  [j \in 1..n |-> Resource(i, j, [probe |-> "schema", url |-> UrlCsv, geoOk |-> TRUE,
                                  state |-> "active"])]

\* The detail records identifier i may answer with, declaring n resources:
\* fetch "fail" is a package_show request that rejects.
DetailRecords(i, n) ==
  (IF n = 0
     THEN { [name |-> DatasetName(i), fetch |-> "fail", type |-> "dataset",
             org |-> <<"org", 1>>, tags |-> <<>>, state |-> "active",
             resources |-> <<>>] }
     ELSE {})
  \cup { [name |-> DatasetName(i), fetch |-> "ok", type |-> "harvest-source",
          org |-> <<"org", 1>>, tags |-> << <<"H", "s">> >>, state |-> "active",
          resources |-> PlainResources(i, n)] }
  \cup { [name |-> DatasetName(i), fetch |-> "ok", type |-> "dataset",
          org |-> o, tags |-> TagsOf(o), state |-> StateOf(o), resources |-> rs] :
            o \in OrgsAt(i), rs \in ResourceLists(i, n) }

RECURSIVE DetailLists(_, _, _)
\* the detail records of identifiers i..n, declaring at most budget resources
DetailLists(i, n, budget) ==
  IF i > n THEN { <<>> }
  ELSE UNION { { <<ds>> \o rest : ds \in DetailRecords(i, k),
                                  rest \in DetailLists(i + 1, n, budget - k) }
               : k \in 0..budget }

\* one dataset with more resources than the queue runs at once; the probe of
\* its second resource answers as second says, and the probes of its first,
\* third and fourth find no schema for a .geojson, an .xml and a .pdf url
WideWorldWith(second) ==
  [listOk |-> TRUE,
   datasets |-> << [name |-> DatasetName(1), fetch |-> "ok", type |-> "dataset",
                    org |-> <<"org", 1>>, tags |-> <<>>, state |-> "active",
                    resources |-> [j \in 1..(Concurrency + 1) |->
                       Resource(1, j,
                         IF j = 1
                           THEN [probe |-> "notfound", url |-> UrlGeoJson, geoOk |-> TRUE,
                                 state |-> "active"]
                         ELSE IF j = 3
                           THEN [probe |-> "notfound", url |-> UrlXml, geoOk |-> TRUE,
                                 state |-> "draft"]
                         ELSE IF j = 4
                           THEN [probe |-> "notfound", url |-> UrlPdf, geoOk |-> TRUE,
                                 state |-> "deleted"]
                         ELSE [probe |-> IF j = 2 THEN second ELSE "schema",
                               url |-> UrlCsv, geoOk |-> TRUE, state |-> "active"])]] >>]

\* every request of that dataset is answered
WideWorld == WideWorldWith("schema")
\* the probe of its second resource rejects
WideWorldFailing == WideWorldWith("throw")

Worlds ==
  { [listOk |-> FALSE, datasets |-> <<>>] }
  \cup { [listOk |-> TRUE, datasets |-> dl] :
           dl \in UNION { DetailLists(1, n, MaxResources) : n \in 0..MaxDatasets } }
  \cup { WideWorld, WideWorldFailing }

\* ------------------------------------------------------------------- state

VARIABLES
  world,       \* the upstream portal: what every request of a run answers
  connection,  \* this.connection is set
  pc,          \* where run() stands: idle, listing, fetching, processing,
               \* finalizing, done, failed
  failure,     \* why run() rejected: none, Not initialized, listing, detail (a
               \* fetchDataset rejected), delta, full (that applyMutation rejected)
  pending,     \* pqueue: the tasks added and not yet started, oldest first
  running,     \* pqueue: the tasks started and not yet settled
  fetched,     \* per identifier: the fetchDataset promise (none, wait, ok, err)
  schemas,     \* per dataset, per resource: the schemaInfo createApis resolved
  direct,      \* the downloads in flight that were started outside the queue
  deltaSt,     \* per identifier: its Delta (none, sending, applied, failed)
  sink,        \* the mutations applyMutation was called with in this run, in order
  call         \* the call of tryResourceCsvUrl or tryResourceJsonUrl under
               \* evaluation: its arguments, its position and its locals

vars == <<world, connection, pc, failure, pending, running, fetched, schemas,
          direct, deltaSt, sink, call>>

\* the provider's run never reaches tryResourceCsvUrl or tryResourceJsonUrl:
\* tryResourceUrl returns before it calls them
NoCall == [fn |-> "none"]

N == Len(world.datasets)
Dataset(d) == world.datasets[d]
NumResources(d) == Len(Dataset(d).resources)

\* ----------------------------------------------------------- pure functions

\* String.prototype.endsWith
EndsWith(s, suffix) ==
  /\ Len(s) >= Len(suffix)
  /\ SubSeq(s, Len(s) - Len(suffix) + 1, Len(s)) = suffix

Env == "production"
getProviderName == <<"datagovlv-", Env>>
LocationKey == <<getProviderName, ":", Env>>

annotations(id) ==
  [location |-> <<"url:", API_SHOW, "?id=", id>>,
   originLocation |-> <<"url:", API_SHOW, "?id=", id>>]

\* String.prototype.toLowerCase, character by character
ToLowerChar(c) ==
  CASE c = "A" -> "a" [] c = "B" -> "b" [] c = "C" -> "c"
    [] c = "H" -> "h" [] c = "S" -> "s" [] OTHER -> c
toLowerCase(str) == [i \in 1..Len(str) |-> ToLowerChar(str[i])]

\* [...new Set(values)]: the values in the order of their first occurrence
SpreadSet(values) ==
  SelectSeq([i \in 1..Len(values) |->
               IF \E k \in 1..(i - 1) : values[k] = values[i]
                 THEN <<FALSE, values[i]>> ELSE <<TRUE, values[i]>>],
            LAMBDA v : v[1])

\* [...new Set(data.tags.map(tag => tag.name.toLowerCase()))]
LowerCaseTags(data) ==
  LET kept == SpreadSet([i \in 1..Len(data.tags) |-> toLowerCase(data.tags[i])])
  IN [i \in 1..Len(kept) |-> kept[i][2]]

\* mutant: every entity is in production
LifecycleProduction(state) == "production"

\* state === "active" ? "production" : "experimental"
Lifecycle(state) == IF state = "active" THEN "production" ELSE "experimental"

\* the annotations of an entity that links to its page on the portal
WithViewUrl(ann, page) ==
  [location |-> ann.location, originLocation |-> ann.originLocation, viewUrl |-> page]

\* mutant: the Group is named after the organization's title
createOwnerByTitle(dataset) ==
  [kind |-> "Group",
   name |-> <<"title">> \o dataset.org,
   annotations |-> annotations(dataset.name)]

createOwner(dataset) ==
  [kind |-> "Group",
   name |-> dataset.org,
   annotations |-> annotations(dataset.name)]

\* mutant: providesApis misses the first resource
createComponentMissingApi(dataset) ==
  [kind |-> "Component",
   name |-> dataset.name,
   tags |-> LowerCaseTags(dataset),
   annotations |-> WithViewUrl(annotations(dataset.name),
                      <<"url:https://data.gov.lv/dati/lv/dataset/", dataset.name>>),
   type |-> dataset.type,
   owner |-> dataset.org,
   lifecycle |-> Lifecycle(dataset.state),
   providesApis |-> [j \in 1..(Len(dataset.resources) - 1) |-> dataset.resources[j + 1].id]]

createComponent(dataset) ==
  [kind |-> "Component",
   name |-> dataset.name,
   tags |-> LowerCaseTags(dataset),
   annotations |-> WithViewUrl(annotations(dataset.name),
                      <<"url:https://data.gov.lv/dati/lv/dataset/", dataset.name>>),
   type |-> dataset.type,
   owner |-> dataset.org,
   lifecycle |-> Lifecycle(dataset.state),
   providesApis |-> [j \in 1..Len(dataset.resources) |-> dataset.resources[j].id]]

\* the entity createApis builds for one resource from its schemaInfo
createApi(dataset, resource, schemaInfo) ==
  [kind |-> "API",
   name |-> resource.id,
   annotations |-> annotations(dataset.name),
   type |-> schemaInfo.type,
   lifecycle |-> Lifecycle(resource.state),
   owner |-> dataset.org,
   definition |-> schemaInfo.definition,
   system |-> dataset.name]

\* mutant: the schema of the structured probe is dropped
DatastoreInfoResultDropped(resource) == Undefined

\* tryDatastoreInfo, after the queue task settled: Undefined for no schema
DatastoreInfoResult(resource) ==
  IF resource.probe = "schema"
    THEN [type |-> "avro", definition |-> <<"Row", resource.id>>]
    ELSE Undefined

\* mutant: the extensions are matched without their dot
tryResourceUrlWithoutDot(url) ==
  IF EndsWith(url, <<"j", "s", "o", "n">>)
    THEN [type |-> "solved", definition |-> <<"enable">>]
  ELSE IF EndsWith(url, <<"c", "s", "v">>)
    THEN [type |-> "solved", definition |-> <<"enable">>]
  ELSE IF EndsWith(url, <<"x", "m", "l">>)
    THEN [type |-> "xml", definition |-> <<"xml">>]
  ELSE Undefined

\* tryResourceUrl: the schema info, Undefined, or AwaitFetch when it awaits the
\* download of the GeoJSON schema document
tryResourceUrl(url) ==
  IF EndsWith(url, <<".", "j", "s", "o", "n">>)
    THEN [type |-> "solved", definition |-> <<"enable">>]
  ELSE IF EndsWith(url, <<".", "c", "s", "v">>)
    THEN [type |-> "solved", definition |-> <<"enable">>]
  ELSE IF EndsWith(url, <<".", "x", "m", "l">>)
    THEN [type |-> "xml", definition |-> <<"xml">>]
  ELSE IF EndsWith(url, <<".", "g", "e", "o", "j", "s", "o", "n">>)
    THEN AwaitFetch
  ELSE Undefined

\* JSON.stringify(reason, null, 2) of an Error: it has no enumerable property
JSONStringifyError(reason) == <<"{}">>

\* mutant: the .catch answers "unknown" instead of "error"
OnRejectedUnknown(reason) == [type |-> "unknown", definition |-> <<"unknown">>]

\* the .catch of createApis
OnRejected(reason) == [type |-> "error", definition |-> JSONStringifyError(reason)]

\* mutant: a missing schema is reported as an error
OrError(schema) ==
  IF schema = Undefined THEN [type |-> "error", definition |-> <<"{}">>]
  ELSE schema

\* the last .then of createApis
OrUnknown(schema) ==
  IF schema = Undefined THEN [type |-> "unknown", definition |-> <<"unknown">>]
  ELSE schema

\* ------------------------------------------------------------------ p-queue

\* mutant: a task added while Concurrency tasks run is dropped
QueueAddDropped(q, task) ==
  IF Cardinality(q.running) < Concurrency
    THEN [q EXCEPT !.running = @ \cup {task}]
    ELSE q

\* pqueue.add: the task starts at once while fewer than Concurrency run
QueueAdd(q, task) ==
  IF Cardinality(q.running) < Concurrency
    THEN [q EXCEPT !.running = @ \cup {task}]
    ELSE [q EXCEPT !.pending = Append(@, task)]

RECURSIVE QueueAddAll(_, _)
QueueAddAll(q, tasks) ==
  IF tasks = <<>> THEN q
  ELSE QueueAddAll(QueueAdd(q, Head(tasks)), Tail(tasks))

\* mutant: the slot of a settled task is not handed to the oldest pending task
QueueSettleSlotLost(q, task) == [q EXCEPT !.running = @ \ {task}]

\* a running task settles (resolved or rejected alike): the oldest pending starts
QueueSettle(q, task) ==
  IF q.pending = <<>>
    THEN [q EXCEPT !.running = @ \ {task}]
    ELSE [pending |-> Tail(q.pending),
          running |-> (q.running \ {task}) \cup {Head(q.pending)}]

Queue == [pending |-> pending, running |-> running]
EmptyQueue == [pending |-> <<>>, running |-> {}]

ShowTask(d) == <<"show", d, 0>>
InfoTask(d, j) == <<"info", d, j>>

\* --------------------------------------------------- applyDatasetEntities

\* the resources of the listing: dataset position, resource position
Keys == UNION { { <<d, j>> : j \in 1..NumResources(d) } : d \in 1..N }

\* the filter on the fetched detail records
Filter(dataset) == dataset.type = "dataset"

RECURSIVE Select(_, _)
\* the identifiers' positions from d on that pass the filter, in listing order
Select(d, n) ==
  IF d > n THEN <<>>
  ELSE (IF Filter(Dataset(d)) THEN <<d>> ELSE <<>>) \o Select(d + 1, n)

AcceptedSeq == Select(1, N)
Accepted == { AcceptedSeq[i] : i \in 1..Len(AcceptedSeq) }

RECURSIVE Flat(_)
\* Array.prototype.flat over a sequence of sequences
Flat(ss) == IF ss = <<>> THEN <<>> ELSE Head(ss) \o Flat(Tail(ss))

\* createApis adds one tryDatastoreInfo per resource, in resource order
InfoTasks(d) == [j \in 1..NumResources(d) |-> InfoTask(d, j)]
AllInfoTasks == Flat([i \in 1..Len(AcceptedSeq) |-> InfoTasks(AcceptedSeq[i])])

\* createApis(dataset) resolved: every resource's schemaInfo is there
ApisResolved(d, sch) == \A j \in 1..NumResources(d) : sch[<<d, j>>] # NoSchema

\* [group, component, ...apis]
DatasetEntities(d, sch) ==
  <<createOwner(Dataset(d)), createComponent(Dataset(d))>>
  \o [j \in 1..NumResources(d) |->
        createApi(Dataset(d), Dataset(d).resources[j], sch[<<d, j>>])]

WithLocationKey(entities) ==
  [i \in 1..Len(entities) |-> [entity |-> entities[i], locationKey |-> LocationKey]]

\* mutant: the Component is put before the Group
DeltaMutationComponentFirst(d, sch) ==
  LET entities == DatasetEntities(d, sch)
  IN [type |-> "delta",
      added |-> WithLocationKey(<<entities[2], entities[1]>> \o SubSeq(entities, 3, Len(entities))),
      removed |-> <<>>]

DeltaMutation(d, sch) ==
  [type |-> "delta", added |-> WithLocationKey(DatasetEntities(d, sch)), removed |-> <<>>]

\* mutant: the results in the order in which the datasets' entities were ready
CollectOrderByCompletion(snk) ==
  LET ds == SelectSeq(snk, LAMBDA m : m.type = "delta")
  IN [i \in 1..Len(ds) |->
        CHOOSE p \in 1..N : Dataset(p).name = ds[i].added[2].entity.name]

\* Promise.all(datasetsPromises): the results in the order of the promises
CollectOrder(snk) == AcceptedSeq

\* mutant: the Full is put together from the Deltas, in the order they were sent
FullMutationFromDeltas(snk, sch) ==
  LET ds == SelectSeq(snk, LAMBDA m : m.type = "delta")
  IN [type |-> "full", entities |-> Flat([i \in 1..Len(ds) |-> ds[i].added])]

\* mutant: the entities of the last accepted dataset are left out of the Full
FullMutationWithoutLast(snk, sch) ==
  [type |-> "full",
   entities |-> WithLocationKey(
      Flat([i \in 1..(Len(AcceptedSeq) - 1) |-> DatasetEntities(AcceptedSeq[i], sch)]))]

FullMutation(snk, sch) ==
  [type |-> "full",
   entities |-> WithLocationKey(
      Flat([i \in 1..Len(CollectOrder(snk)) |-> DatasetEntities(CollectOrder(snk)[i], sch)]))]

\* ----------------------------------------------------------------- actions

Init ==
  /\ world \in Worlds
  /\ connection = FALSE
  /\ pc = "idle"
  /\ failure = "none"
  /\ pending = <<>>
  /\ running = {}
  /\ fetched = [d \in 1..N |-> "none"]
  /\ schemas = [k \in Keys |-> NoSchema]
  /\ direct = {}
  /\ deltaSt = [d \in 1..N |-> "none"]
  /\ sink = <<>>
  /\ call = NoCall

\* connect(connection)
Connect ==
  /\ connection' = TRUE
  /\ UNCHANGED <<world, pc, failure, pending, running, fetched, schemas, direct,
                 deltaSt, sink>>
  /\ UNCHANGED call

\* nothing of an earlier run is still in flight (the scheduler starts a run every
\* 300 minutes and gives it 200)
Quiescent ==
  /\ pc \in {"idle", "done", "failed"}
  /\ pending = <<>> /\ running = {} /\ direct = {}
  /\ \A d \in 1..N : deltaSt[d] # "sending"

NewRun ==
  /\ pending' = <<>> /\ running' = {} /\ direct' = {}
  /\ fetched' = [d \in 1..N |-> "none"]
  /\ schemas' = [k \in Keys |-> NoSchema]
  /\ deltaSt' = [d \in 1..N |-> "none"]
  /\ sink' = <<>>

\* run() without a connection: throw new Error('Not initialized')
RunNotConnected ==
  /\ Quiescent
  /\ ~connection
  /\ pc' = "failed"
  /\ failure' = "Not initialized"
  /\ NewRun
  /\ UNCHANGED <<world, connection>>
  /\ UNCHANGED call

\* mutant: run() without the check of this.connection
RunUnchecked ==
  /\ Quiescent
  /\ pc' = "listing"
  /\ failure' = "none"
  /\ NewRun
  /\ UNCHANGED <<world, connection>>
  /\ UNCHANGED call

\* run() with a connection: the listing request is sent
RunConnected ==
  /\ Quiescent
  /\ connection
  /\ pc' = "listing"
  /\ failure' = "none"
  /\ NewRun
  /\ UNCHANGED <<world, connection>>
  /\ UNCHANGED call

\* mutant: a listing that rejects is taken for an empty listing
GetDatasetNamesFailAsEmpty ==
  /\ pc = "listing"
  /\ ~world.listOk
  /\ pc' = "finalizing"
  /\ sink' = <<[type |-> "full", entities |-> <<>>]>>
  /\ UNCHANGED <<world, connection, failure, pending, running, fetched, schemas,
                 direct, deltaSt>>
  /\ UNCHANGED call

\* getDatasetNames rejects: run() rejects with it
GetDatasetNamesFail ==
  /\ pc = "listing"
  /\ ~world.listOk
  /\ pc' = "failed"
  /\ failure' = "listing"
  /\ UNCHANGED <<world, connection, pending, running, fetched, schemas, direct,
                 deltaSt, sink>>
  /\ UNCHANGED call

\* The continuation of applyDatasetEntities once every fetchDataset resolved:
\* the filter, then per accepted dataset the owner, the component and
\* createApis (one queue task per resource); a dataset without resources sends
\* its Delta at once; without any accepted dataset the Full is sent.
AfterFetches ==
  LET q == QueueAddAll(EmptyQueue, AllInfoTasks)
      ready == SelectSeq(AcceptedSeq, LAMBDA d : NumResources(d) = 0)
  IN /\ pending' = q.pending
     /\ running' = q.running
     /\ deltaSt' = [d \in 1..N |->
                      IF d \in Accepted /\ NumResources(d) = 0 THEN "sending" ELSE "none"]
     /\ IF AcceptedSeq = <<>>
          THEN /\ sink' = <<FullMutation(<<>>, schemas)>>
               /\ pc' = "finalizing"
          ELSE /\ sink' = [i \in 1..Len(ready) |-> DeltaMutation(ready[i], schemas)]
               /\ pc' = "processing"
     /\ UNCHANGED <<schemas, direct>>

\* getDatasetNames resolves: every identifier's fetchDataset is added to the queue
GetDatasetNamesOk ==
  /\ pc = "listing"
  /\ world.listOk
  /\ IF N = 0
       THEN /\ AfterFetches
            /\ UNCHANGED fetched
       ELSE LET q == QueueAddAll(Queue, [d \in 1..N |-> ShowTask(d)])
            IN /\ pending' = q.pending
               /\ running' = q.running
               /\ fetched' = [d \in 1..N |-> "wait"]
               /\ pc' = "fetching"
               /\ UNCHANGED <<schemas, direct, deltaSt, sink>>
  /\ UNCHANGED <<world, connection, failure>>
  /\ UNCHANGED call

\* mutant: a fetchDataset task that rejects is added to the queue again
FetchDatasetFailRetried(d) ==
  /\ ShowTask(d) \in running
  /\ Dataset(d).fetch = "fail"
  /\ LET q == QueueAdd(QueueSettle(Queue, ShowTask(d)), ShowTask(d))
     IN pending' = q.pending /\ running' = q.running
  /\ fetched' = [fetched EXCEPT ![d] = "err"]
  /\ UNCHANGED <<world, connection, pc, failure, schemas, direct, deltaSt, sink, call>>

\* a fetchDataset task rejects: Promise.all rejects, and run() with it
FetchDatasetFail(d) ==
  /\ ShowTask(d) \in running
  /\ Dataset(d).fetch = "fail"
  /\ LET q == QueueSettle(Queue, ShowTask(d))
     IN pending' = q.pending /\ running' = q.running
  /\ fetched' = [fetched EXCEPT ![d] = "err"]
  /\ IF pc = "fetching"
       THEN pc' = "failed" /\ failure' = "detail"
       ELSE UNCHANGED <<pc, failure>>
  /\ UNCHANGED <<world, connection, schemas, direct, deltaSt, sink>>
  /\ UNCHANGED call

\* a fetchDataset task resolves; the last one lets applyDatasetEntities go on
FetchDatasetOk(d) ==
  /\ ShowTask(d) \in running
  /\ Dataset(d).fetch = "ok"
  /\ fetched' = [fetched EXCEPT ![d] = "ok"]
  /\ IF \A e \in 1..N : fetched'[e] = "ok"
       THEN AfterFetches
       ELSE /\ LET q == QueueSettle(Queue, ShowTask(d))
               IN pending' = q.pending /\ running' = q.running
            /\ UNCHANGED <<pc, schemas, direct, deltaSt, sink>>
  /\ UNCHANGED <<world, connection, failure>>
  /\ UNCHANGED call

\* One resource's schemaInfo is there; with the last one of a dataset createApis
\* resolves and the dataset's Delta is sent.
Resolve(d, j, schemaInfo) ==
  /\ schemas' = [schemas EXCEPT ![<<d, j>>] = schemaInfo]
  /\ IF ApisResolved(d, schemas')
       THEN /\ deltaSt' = [deltaSt EXCEPT ![d] = "sending"]
            /\ sink' = Append(sink, DeltaMutation(d, schemas'))
       ELSE UNCHANGED <<deltaSt, sink>>

\* the tryDatastoreInfo request (or its JSON parse) rejects: caught in createApis
TryDatastoreInfoRejected(d, j) ==
  /\ InfoTask(d, j) \in running
  /\ Dataset(d).resources[j].probe = "throw"
  /\ LET q == QueueSettle(Queue, InfoTask(d, j))
     IN pending' = q.pending /\ running' = q.running
  /\ Resolve(d, j, OnRejected("TypeError"))
  /\ UNCHANGED <<world, connection, pc, failure, fetched, direct>>
  /\ UNCHANGED call

\* the tryDatastoreInfo request answers: its schema, or tryResourceUrl(resource.url)
TryDatastoreInfoResolved(d, j) ==
  /\ InfoTask(d, j) \in running
  /\ Dataset(d).resources[j].probe # "throw"
  /\ LET q == QueueSettle(Queue, InfoTask(d, j))
     IN pending' = q.pending /\ running' = q.running
  /\ LET datastoreSchema == DatastoreInfoResult(Dataset(d).resources[j])
         schema == IF datastoreSchema # Undefined THEN datastoreSchema
                   ELSE tryResourceUrl(Dataset(d).resources[j].url)
     IN IF schema = AwaitFetch
          THEN /\ direct' = direct \cup {<<d, j>>}
               /\ UNCHANGED <<schemas, deltaSt, sink>>
          ELSE /\ Resolve(d, j, OrUnknown(schema))
               /\ UNCHANGED direct
  /\ UNCHANGED <<world, connection, pc, failure, fetched>>
  /\ UNCHANGED call

\* the download of the GeoJSON schema document settles
GeoJsonFetchSettled(d, j) ==
  /\ <<d, j>> \in direct
  /\ direct' = direct \ {<<d, j>>}
  /\ Resolve(d, j, IF Dataset(d).resources[j].geoOk
                     THEN [type |-> "json-schema", definition |-> GeoJsonText]
                     ELSE OnRejected("TypeError"))
  /\ UNCHANGED <<world, connection, pc, failure, pending, running, fetched>>
  /\ UNCHANGED call

\* mutant: the first promise of datasetsPromises resolved (Promise.any)
AnyDeltaApplied(dst) == \E d \in Accepted : dst[d] = "applied"

\* every promise of datasetsPromises resolved
AllDeltasApplied(dst) == \A d \in Accepted : dst[d] = "applied"

\* a Delta's applyMutation resolves; after the last one run() sends the Full
DeltaApplied(d) ==
  /\ deltaSt[d] = "sending"
  /\ deltaSt' = [deltaSt EXCEPT ![d] = "applied"]
  /\ IF pc = "processing" /\ AllDeltasApplied(deltaSt')
       THEN /\ sink' = Append(sink, FullMutation(sink, schemas))
            /\ pc' = "finalizing"
       ELSE UNCHANGED <<sink, pc>>
  /\ UNCHANGED <<world, connection, failure, pending, running, fetched, schemas, direct>>
  /\ UNCHANGED call

\* mutant: the rejection of a Delta's applyMutation is caught and dropped
DeltaRejectedIgnored(d) ==
  /\ deltaSt[d] = "sending"
  /\ deltaSt' = [deltaSt EXCEPT ![d] = "failed"]
  /\ IF pc = "processing" /\ \A e \in Accepted : deltaSt'[e] \in {"applied", "failed"}
       THEN /\ sink' = Append(sink, FullMutation(sink, schemas))
            /\ pc' = "finalizing"
       ELSE UNCHANGED <<sink, pc>>
  /\ UNCHANGED <<world, connection, failure, pending, running, fetched, schemas, direct>>
  /\ UNCHANGED call

\* a Delta's applyMutation rejects: Promise.all rejects, and run() with it
DeltaRejected(d) ==
  /\ deltaSt[d] = "sending"
  /\ deltaSt' = [deltaSt EXCEPT ![d] = "failed"]
  /\ IF pc = "processing"
       THEN pc' = "failed" /\ failure' = "delta"
       ELSE UNCHANGED <<pc, failure>>
  /\ UNCHANGED <<world, connection, pending, running, fetched, schemas, direct, sink>>
  /\ UNCHANGED call

\* the Full's applyMutation resolves: run() returns
FullApplied ==
  /\ pc = "finalizing"
  /\ pc' = "done"
  /\ UNCHANGED <<world, connection, failure, pending, running, fetched, schemas,
                 direct, deltaSt, sink>>
  /\ UNCHANGED call

\* the Full's applyMutation rejects: run() rejects
FullRejected ==
  /\ pc = "finalizing"
  /\ pc' = "failed"
  /\ failure' = "full"
  /\ UNCHANGED <<world, connection, pending, running, fetched, schemas, direct,
                 deltaSt, sink>>
  /\ UNCHANGED call

Next ==
  \/ Connect
  \/ RunNotConnected
  \/ RunConnected
  \/ GetDatasetNamesFail
  \/ GetDatasetNamesOk
  \/ \E d \in 1..N : FetchDatasetFail(d)
  \/ \E d \in 1..N : FetchDatasetOk(d)
  \/ \E k \in Keys : TryDatastoreInfoRejected(k[1], k[2])
  \/ \E k \in Keys : TryDatastoreInfoResolved(k[1], k[2])
  \/ \E k \in Keys : GeoJsonFetchSettled(k[1], k[2])
  \/ \E d \in 1..N : DeltaApplied(d)
  \/ \E d \in 1..N : DeltaRejected(d)
  \/ FullApplied
  \/ FullRejected

Spec == Init /\ [][Next]_vars

\* a request or a sink call that is outstanding completes
Progress ==
  \/ GetDatasetNamesFail
  \/ GetDatasetNamesOk
  \/ \E d \in 1..N : FetchDatasetFail(d)
  \/ \E d \in 1..N : FetchDatasetOk(d)
  \/ \E k \in Keys : TryDatastoreInfoRejected(k[1], k[2])
  \/ \E k \in Keys : TryDatastoreInfoResolved(k[1], k[2])
  \/ \E k \in Keys : GeoJsonFetchSettled(k[1], k[2])
  \/ \E d \in 1..N : DeltaApplied(d)
  \/ \E d \in 1..N : DeltaRejected(d)
  \/ FullApplied
  \/ FullRejected

\* the run under fairness: no request and no sink call stays outstanding for ever
FairSpec == Spec /\ WF_vars(Progress)

\* ------------------------------------ the resource-grained DataGovLvProvider
\* datagovlv-provider.ts: datasetEntities has no filter and sends no Delta; a
\* dataset yields a System, a Group, a Component per resource and an Api per
\* resource; createApis tries tryDatastoreInfo alone and answers "unknown" when
\* it rejects or has no schema.

createSystem(dataset) ==
  [kind |-> "System",
   name |-> dataset.name,
   tags |-> LowerCaseTags(dataset),
   annotations |-> WithViewUrl(annotations(dataset.name),
                      <<"url:https://data.gov.lv/dati/lv/dataset/", dataset.name>>),
   owner |-> dataset.org]

createComponents(dataset) ==
  [j \in 1..Len(dataset.resources) |->
     [kind |-> "Component",
      name |-> dataset.resources[j].id,
      tags |-> LowerCaseTags(dataset),
      annotations |-> WithViewUrl(annotations(dataset.name),
                         <<"url:https://data.gov.lv/dati/lv/dataset/", dataset.name,
                           "/resource/", dataset.resources[j].id>>),
      type |-> dataset.type,
      lifecycle |-> Lifecycle(dataset.resources[j].state),
      owner |-> dataset.org,
      system |-> dataset.name,
      providesApis |-> <<dataset.resources[j].id>>]]

\* the schemaInfo of createApis for a settled tryDatastoreInfo
SchemaInfoOrUnknown(resource) ==
  IF resource.probe = "throw" \/ DatastoreInfoResult(resource) = Undefined
    THEN [type |-> "unknown", definition |-> <<"unknown">>]
    ELSE DatastoreInfoResult(resource)

\* [system, group, ...components, ...apis]
datasetEntities(d, sch) ==
  <<createSystem(Dataset(d)), createOwner(Dataset(d))>>
  \o createComponents(Dataset(d))
  \o [j \in 1..NumResources(d) |->
        createApi(Dataset(d), Dataset(d).resources[j], sch[<<d, j>>])]

FullMutationOfAll(sch) ==
  [type |-> "full",
   entities |-> WithLocationKey(Flat([d \in 1..N |-> datasetEntities(d, sch)]))]

\* The continuation of datasetEntities once every fetchDataset resolved: per
\* dataset createApis adds one queue task per resource; without any resource the
\* Full is sent.
AfterFetchesOfAll ==
  LET q == QueueAddAll(EmptyQueue, Flat([d \in 1..N |-> InfoTasks(d)]))
  IN /\ pending' = q.pending
     /\ running' = q.running
     /\ IF Keys = {}
          THEN /\ sink' = <<FullMutationOfAll(schemas)>>
               /\ pc' = "finalizing"
          ELSE /\ sink' = <<>>
               /\ pc' = "processing"
     /\ UNCHANGED <<schemas, direct, deltaSt>>

GetDatasetNamesOkOfAll ==
  /\ pc = "listing"
  /\ world.listOk
  /\ IF N = 0
       THEN /\ AfterFetchesOfAll
            /\ UNCHANGED fetched
       ELSE LET q == QueueAddAll(Queue, [d \in 1..N |-> ShowTask(d)])
            IN /\ pending' = q.pending
               /\ running' = q.running
               /\ fetched' = [d \in 1..N |-> "wait"]
               /\ pc' = "fetching"
               /\ UNCHANGED <<schemas, direct, deltaSt, sink>>
  /\ UNCHANGED <<world, connection, failure>>
  /\ UNCHANGED call

FetchDatasetOkOfAll(d) ==
  /\ ShowTask(d) \in running
  /\ Dataset(d).fetch = "ok"
  /\ fetched' = [fetched EXCEPT ![d] = "ok"]
  /\ IF \A e \in 1..N : fetched'[e] = "ok"
       THEN AfterFetchesOfAll
       ELSE /\ LET q == QueueSettle(Queue, ShowTask(d))
               IN pending' = q.pending /\ running' = q.running
            /\ UNCHANGED <<pc, schemas, direct, deltaSt, sink>>
  /\ UNCHANGED <<world, connection, failure>>
  /\ UNCHANGED call

\* a tryDatastoreInfo task settles; after the last one datasetEntities resolves
\* and run() sends the Full
TryDatastoreInfoSettledOfAll(d, j) ==
  /\ InfoTask(d, j) \in running
  /\ LET q == QueueSettle(Queue, InfoTask(d, j))
     IN pending' = q.pending /\ running' = q.running
  /\ schemas' = [schemas EXCEPT ![<<d, j>>] = SchemaInfoOrUnknown(Dataset(d).resources[j])]
  /\ IF pc = "processing" /\ \A k \in Keys : schemas'[k] # NoSchema
       THEN /\ sink' = Append(sink, FullMutationOfAll(schemas'))
            /\ pc' = "finalizing"
       ELSE UNCHANGED <<sink, pc>>
  /\ UNCHANGED <<world, connection, failure, fetched, direct, deltaSt>>
  /\ UNCHANGED call

NextResourceGrained ==
  \/ Connect
  \/ RunNotConnected
  \/ RunConnected
  \/ GetDatasetNamesFail
  \/ GetDatasetNamesOkOfAll
  \/ \E d \in 1..N : FetchDatasetFail(d)
  \/ \E d \in 1..N : FetchDatasetOkOfAll(d)
  \/ \E k \in Keys : TryDatastoreInfoSettledOfAll(k[1], k[2])
  \/ FullApplied
  \/ FullRejected

SpecResourceGrained == Init /\ [][NextResourceGrained]_vars

\* ------------------------------------------------------ ApiVissGovLvProvider
\* apivissgovlv-provider.ts: one run lists the APIs, fetches every API's
\* definition through the provider's p-queue, builds a Component, an Api and a
\* Group per definition and publishes them in one Full: the Components, then the
\* Apis, then the Groups. The state is the same as DataGovLvProvider's; fetched
\* holds the getApiDefinition promises.

\* APIs the listing returns, at most
MaxApis == 2

Null == <<"null">>
VISS_API_SHOW == "https://api.viss.gov.lv/api/am/devportal/v2/apis/{ID}"

ApiId(i) == <<"api", i>>
\* businessInformation of an API definition: each owner may be null
BusinessInformations ==
  { [businessOwner |-> <<"org", 1>>, technicalOwner |-> <<"org", 2>>],
    [businessOwner |-> Null, technicalOwner |-> <<"org", 2>>],
    [businessOwner |-> Null, technicalOwner |-> Null] }

\* The definitions API i of the listing may answer with: fetch "fail" is a
\* request (or its JSON parse) that rejects.
ApiDefinitions(i) ==
  { [id |-> ApiId(i), name |-> <<"name", i>>, fetch |-> "fail", tags |-> <<>>,
     wsdlUri |-> Null, provider |-> <<"admin">>, apiDefinition |-> <<"openapi", i>>,
     businessInformation |-> [businessOwner |-> Null, technicalOwner |-> Null]] }
  \cup { [id |-> ApiId(i), name |-> <<"name", i>>, fetch |-> "ok", tags |-> ts,
          wsdlUri |-> Null, provider |-> <<"admin">>, apiDefinition |-> <<"openapi", i>>,
          businessInformation |-> b] : ts \in TagsAt(i), b \in BusinessInformations }

RECURSIVE ApiLists(_, _)
ApiLists(i, n) ==
  IF i > n THEN { <<>> }
  ELSE { <<api>> \o rest : api \in ApiDefinitions(i), rest \in ApiLists(i + 1, n) }

VissWorlds ==
  { [listOk |-> FALSE, datasets |-> <<>>, apis |-> <<>>] }
  \cup { [listOk |-> TRUE, datasets |-> <<>>, apis |-> al] :
           al \in UNION { ApiLists(1, n) : n \in 0..MaxApis } }

NumApis == Len(world.apis)
Api(a) == world.apis[a]
DefinitionTask(a) == <<"definition", a, 0>>

vissProviderName == <<"apivissgovlv-", Env>>
VissLocationKey == <<vissProviderName, ":", Env>>

\* annotations(id) of ApiVissGovLvProvider
vissAnnotations(id) ==
  [location |-> <<"url:", VISS_API_SHOW, "{ID}=", id>>,
   originLocation |-> <<"url:", VISS_API_SHOW, "{ID}=", id>>]

\* businessOwner ?? technicalOwner ?? provider
OwnerOf(api) ==
  IF api.businessInformation.businessOwner # Null
    THEN api.businessInformation.businessOwner
  ELSE IF api.businessInformation.technicalOwner # Null
    THEN api.businessInformation.technicalOwner
  ELSE api.provider

transformToGroup(api) ==
  [kind |-> "Group",
   name |-> OwnerOf(api),
   annotations |-> vissAnnotations(api.id)]

transformToApi(api) ==
  [kind |-> "API",
   name |-> api.name,
   annotations |-> vissAnnotations(api.id),
   type |-> IF api.wsdlUri # Null THEN "WSDL" ELSE "swagger",
   owner |-> OwnerOf(api),
   definition |-> api.apiDefinition]

transformToComponent(api) ==
  [kind |-> "Component",
   name |-> api.name,
   tags |-> api.tags,
   annotations |-> WithViewUrl(vissAnnotations(api.id),
                      <<"url:https://api.viss.gov.lv/devportal/apis/", api.id, "/overview">>),
   owner |-> OwnerOf(api),
   providesApis |-> <<api.name>>]

\* [...components, ...apiComponents, ...groups]
VissFullMutation ==
  [type |-> "full",
   entities |->
     [i \in 1..(3 * NumApis) |->
        [entity |-> IF i <= NumApis THEN transformToComponent(Api(i))
                    ELSE IF i <= 2 * NumApis THEN transformToApi(Api(i - NumApis))
                    ELSE transformToGroup(Api(i - 2 * NumApis)),
         locationKey |-> VissLocationKey]]]

VissInit ==
  /\ world \in VissWorlds
  /\ connection = FALSE
  /\ pc = "idle"
  /\ failure = "none"
  /\ pending = <<>>
  /\ running = {}
  /\ fetched = [a \in 1..NumApis |-> "none"]
  /\ schemas = <<>>
  /\ direct = {}
  /\ deltaSt = <<>>
  /\ sink = <<>>
  /\ call = NoCall

VissQuiescent ==
  /\ pc \in {"idle", "done", "failed"}
  /\ pending = <<>> /\ running = {}

\* run() without a connection: throw new Error('Not initialized')
VissRunNotConnected ==
  /\ VissQuiescent
  /\ ~connection
  /\ pc' = "failed"
  /\ failure' = "Not initialized"
  /\ fetched' = [a \in 1..NumApis |-> "none"]
  /\ sink' = <<>>
  /\ UNCHANGED <<world, connection, pending, running, schemas, direct, deltaSt>>
  /\ UNCHANGED call

\* run() with a connection: the listing request is sent
VissRunConnected ==
  /\ VissQuiescent
  /\ connection
  /\ pc' = "listing"
  /\ failure' = "none"
  /\ fetched' = [a \in 1..NumApis |-> "none"]
  /\ sink' = <<>>
  /\ UNCHANGED <<world, connection, pending, running, schemas, direct, deltaSt>>
  /\ UNCHANGED call

\* listApis rejects: run() rejects with it
ListApisFail ==
  /\ pc = "listing"
  /\ ~world.listOk
  /\ pc' = "failed"
  /\ failure' = "listing"
  /\ UNCHANGED <<world, connection, pending, running, fetched, schemas, direct,
                 deltaSt, sink>>
  /\ UNCHANGED call

\* listApis resolves: promiseApiDefinitions adds every API's getJson to the
\* queue; without any API the (empty) Full is sent
ListApisOk ==
  /\ pc = "listing"
  /\ world.listOk
  /\ LET q == QueueAddAll(Queue, [a \in 1..NumApis |-> DefinitionTask(a)])
     IN pending' = q.pending /\ running' = q.running
  /\ fetched' = [a \in 1..NumApis |-> "wait"]
  /\ IF NumApis = 0
       THEN sink' = <<VissFullMutation>> /\ pc' = "finalizing"
       ELSE sink' = <<>> /\ pc' = "fetching"
  /\ UNCHANGED <<world, connection, failure, schemas, direct, deltaSt>>
  /\ UNCHANGED call

\* a getApiDefinition task rejects: Promise.all(components) rejects, and run()
GetApiDefinitionFail(a) ==
  /\ DefinitionTask(a) \in running
  /\ Api(a).fetch = "fail"
  /\ LET q == QueueSettle(Queue, DefinitionTask(a))
     IN pending' = q.pending /\ running' = q.running
  /\ fetched' = [fetched EXCEPT ![a] = "err"]
  /\ IF pc = "fetching"
       THEN pc' = "failed" /\ failure' = "detail"
       ELSE UNCHANGED <<pc, failure>>
  /\ UNCHANGED <<world, connection, schemas, direct, deltaSt, sink>>
  /\ UNCHANGED call

\* a getApiDefinition task resolves; after the last one the Full is sent
GetApiDefinitionOk(a) ==
  /\ DefinitionTask(a) \in running
  /\ Api(a).fetch = "ok"
  /\ LET q == QueueSettle(Queue, DefinitionTask(a))
     IN pending' = q.pending /\ running' = q.running
  /\ fetched' = [fetched EXCEPT ![a] = "ok"]
  /\ IF pc = "fetching" /\ \A b \in 1..NumApis : fetched'[b] = "ok"
       THEN sink' = <<VissFullMutation>> /\ pc' = "finalizing"
       ELSE UNCHANGED <<sink, pc>>
  /\ UNCHANGED <<world, connection, failure, schemas, direct, deltaSt>>
  /\ UNCHANGED call

NextApiViss ==
  \/ Connect
  \/ VissRunNotConnected
  \/ VissRunConnected
  \/ ListApisFail
  \/ ListApisOk
  \/ \E a \in 1..NumApis : GetApiDefinitionFail(a)
  \/ \E a \in 1..NumApis : GetApiDefinitionOk(a)
  \/ FullApplied
  \/ FullRejected

SpecApiViss == VissInit /\ [][NextApiViss]_vars

\* ----------------------------------- tryResourceCsvUrl, tryResourceJsonUrl
\* The two content probes, each evaluated on its own: call holds the arguments
\* (the response to the download), the position and the locals of one call.

\* the download of the resource URL, a task of the queue
ContentTask == <<"content", 0, 0>>

\* the statuses the download may answer with
Statuses == {200, 404, 500}

\* the provider around a content probe: nothing but the download in the queue
ProbeAlone ==
  /\ world = [listOk |-> FALSE, datasets |-> <<>>]
  /\ connection = TRUE
  /\ pc = "processing"
  /\ failure = "none"
  /\ pending = <<>>
  /\ running = {ContentTask}
  /\ fetched = <<>>
  /\ schemas = <<>>
  /\ direct = {}
  /\ deltaSt = <<>>
  /\ sink = <<>>

\* the options of csv-parse tried, in order
TryOptions ==
  << [delimiter |-> ";", relax_quotes |-> FALSE],
     [delimiter |-> ",", relax_quotes |-> FALSE],
     [delimiter |-> "|", relax_quotes |-> FALSE],
     [delimiter |-> "\t", relax_quotes |-> FALSE],
     [delimiter |-> ";", relax_quotes |-> TRUE],
     [delimiter |-> ",", relax_quotes |-> TRUE],
     [delimiter |-> "|", relax_quotes |-> TRUE],
     [delimiter |-> "\t", relax_quotes |-> TRUE] >>

\* a value of the second record after cast: true
CastInteger == [t |-> "number", integer |-> TRUE]
CastFloat == [t |-> "number", integer |-> FALSE]
CastString == [t |-> "string", integer |-> FALSE]

\* What parse(text, options) may do with the o-th options: throw (also when the
\* text has no record: headers is undefined), or return the first two records:
\* one column, or several columns, with a second record or (relaxed) without.
ParseOutcomes(o) ==
  { [threw |-> TRUE, headers |-> <<>>, hasRow |-> FALSE, row |-> <<>>],
    [threw |-> FALSE, headers |-> << <<"h", o>> >>, hasRow |-> TRUE,
     row |-> <<CastString>>],
    IF TryOptions[o].relax_quotes
      THEN [threw |-> FALSE, headers |-> << <<"a", o>>, <<"b", o>>, <<"c", o>> >>,
            hasRow |-> FALSE, row |-> <<>>]
      ELSE [threw |-> FALSE, headers |-> << <<"a", o>>, <<"b", o>> >>,
            hasRow |-> TRUE, row |-> <<CastInteger, CastFloat>>] }

RECURSIVE TextsFrom(_)
\* a text is what parse does with it under each of the options, from the o-th on
TextsFrom(o) ==
  IF o > Len(TryOptions) THEN { <<>> }
  ELSE { <<x>> \o rest : x \in ParseOutcomes(o), rest \in TextsFrom(o + 1) }
Texts == TextsFrom(1)
parse(text, o) == text[o]

\* the type of a field from the value of the second record
FieldType(hasRow, value) ==
  IF ~hasRow THEN "string"
  ELSE IF value.t = "number" /\ value.integer THEN "long"
  ELSE IF value.t = "number" THEN "double"
  ELSE "string"

\* headers.map((header, index) => ({ name: header, type: ... }))
FieldsOf(outcome) ==
  [c \in 1..Len(outcome.headers) |->
     [name |-> outcome.headers[c],
      type |-> FieldType(outcome.hasRow, IF outcome.hasRow THEN outcome.row[c] ELSE CastString)]]

\* mutant: a parse to one column wins like any other (no continue)
WinsAlways(headers) == TRUE

\* the parse wins unless headers.length === 1
Wins(headers) == Len(headers) # 1

\* JSON.stringify(avroSchema, null, 2)
AvroOfCsv(delimiter, fields) == <<"record", "Row", delimiter, fields>>

CsvCalls ==
  { [fn |-> "csv", status |-> 200, text |-> t, at |-> "fetch", i |-> 1,
     delimiter |-> ",", fields |-> <<>>, foundOk |-> FALSE, result |-> NoSchema] :
      t \in Texts }
  \cup { [fn |-> "csv", status |-> st, text |-> CHOOSE t \in Texts : TRUE, at |-> "fetch",
          i |-> 1, delimiter |-> ",", fields |-> <<>>, foundOk |-> FALSE,
          result |-> NoSchema] : st \in Statuses \ {200} }

\* the download settles: undefined unless the status is 200
CsvRespond ==
  /\ call.fn = "csv" /\ call.at = "fetch"
  /\ ContentTask \in running
  /\ LET q == QueueSettle(Queue, ContentTask)
     IN pending' = q.pending /\ running' = q.running
  /\ call' = IF call.status # 200
               THEN [call EXCEPT !.at = "returned", !.result = Undefined]
               ELSE [call EXCEPT !.at = "loop"]
  /\ UNCHANGED <<world, connection, pc, failure, fetched, schemas, direct, deltaSt, sink>>

\* one round of the loop over the options
CsvTry ==
  /\ call.fn = "csv" /\ call.at = "loop"
  /\ ~call.foundOk /\ call.i <= Len(TryOptions)
  /\ LET outcome == parse(call.text, call.i)
     IN call' =
          IF outcome.threw
            THEN [call EXCEPT !.i = @ + 1]
          ELSE IF ~Wins(outcome.headers)
            THEN [call EXCEPT !.i = @ + 1, !.delimiter = "unknown",
                              !.fields = << [name |-> outcome.headers[1], type |-> "string"] >>]
          ELSE [call EXCEPT !.delimiter = TryOptions[call.i].delimiter,
                            !.fields = FieldsOf(outcome), !.foundOk = TRUE]
  /\ UNCHANGED <<world, connection, pc, failure, pending, running, fetched, schemas,
                 direct, deltaSt, sink>>

\* after the loop: the avro schema of the delimiter and the fields
CsvReturn ==
  /\ call.fn = "csv" /\ call.at = "loop"
  /\ call.foundOk \/ call.i > Len(TryOptions)
  /\ call' = [call EXCEPT !.at = "returned",
                          !.result = [type |-> "avro",
                                      definition |-> AvroOfCsv(call.delimiter, call.fields)]]
  /\ UNCHANGED <<world, connection, pc, failure, pending, running, fetched, schemas,
                 direct, deltaSt, sink>>

\* bytes of a response body, at most
MaxBytes == 3

\* the bytes of the byte order marks, and "{"
Bytes == {255, 254, 239, 187, 191, 123}
Datas == UNION { [1..n -> Bytes] : n \in 0..MaxBytes }

\* data[i] of a Uint8Array: undefined beyond its length
At(data, i) == IF i < Len(data) THEN data[i + 1] ELSE -1
\* data.slice(from)
Slice(data, from) == SubSeq(data, from + 1, Len(data))

\* new TextDecoder(label).decode(bytes): the decoder drops a leading byte order
\* mark of its own encoding
TextDecode(label, bytes) ==
  [encoding |-> label,
   units |-> IF label = "utf-8" /\ At(bytes, 0) = 239 /\ At(bytes, 1) = 187 /\ At(bytes, 2) = 191
               THEN Slice(bytes, 3)
             ELSE IF label = "utf-16" /\ At(bytes, 0) = 255 /\ At(bytes, 1) = 254
               THEN Slice(bytes, 2)
             ELSE bytes]

\* mutant: the first byte alone decides on the UTF-16 mark
IsUtf16BomByFirstByte(data) == At(data, 0) = 255

\* data[0] === 255 && data[1] === 254
IsUtf16Bom(data) == At(data, 0) = 255 /\ At(data, 1) = 254
\* data[0] === 0xef && data[1] === 0xbb && data[2] === 0xbf
IsUtf8Bom(data) == At(data, 0) = 239 /\ At(data, 1) = 187 /\ At(data, 2) = 191

\* parses: whether JSON.parse accepts the text, when it is not empty
JsonCalls ==
  { [fn |-> "json", status |-> 200, data |-> d, parses |-> ok, at |-> "fetch",
     hasBom |-> FALSE, charset |-> "utf8", sliced |-> <<>>,
     dataString |-> TextDecode("utf-8", <<>>), result |-> NoSchema] :
      d \in Datas, ok \in BOOLEAN }
  \cup { [fn |-> "json", status |-> st, data |-> <<>>, parses |-> TRUE, at |-> "fetch",
          hasBom |-> FALSE, charset |-> "utf8", sliced |-> <<>>,
          dataString |-> TextDecode("utf-8", <<>>), result |-> NoSchema] :
           st \in Statuses \ {200} }

\* the download settles: undefined unless the status is 200; else the byte order
\* mark is looked for and the rest decoded
JsonRespond ==
  /\ call.fn = "json" /\ call.at = "fetch"
  /\ ContentTask \in running
  /\ LET q == QueueSettle(Queue, ContentTask)
     IN pending' = q.pending /\ running' = q.running
  /\ call' =
       IF call.status # 200
         THEN [call EXCEPT !.at = "returned", !.result = Undefined]
       ELSE IF IsUtf16Bom(call.data)
         THEN [call EXCEPT !.at = "decoded", !.hasBom = TRUE, !.charset = "utf-16",
                           !.sliced = Slice(call.data, 2),
                           !.dataString = TextDecode("utf-16", Slice(call.data, 2))]
       ELSE IF IsUtf8Bom(call.data)
         THEN [call EXCEPT !.at = "decoded", !.hasBom = TRUE, !.charset = "utf-8-sig",
                           !.sliced = Slice(call.data, 3),
                           !.dataString = TextDecode("utf-8", Slice(call.data, 3))]
       ELSE [call EXCEPT !.at = "decoded", !.sliced = call.data,
                         !.dataString = TextDecode("utf-8", call.data)]
  /\ UNCHANGED <<world, connection, pc, failure, fetched, schemas, direct, deltaSt, sink>>

\* JSON.parse and jsonSchemaGenerator: the schema, or the call rejects
JsonParse ==
  /\ call.fn = "json" /\ call.at = "decoded"
  /\ call' =
       IF call.parses /\ call.dataString.units # <<>>
         THEN [call EXCEPT !.at = "returned",
                           !.result = [type |-> "json-schema",
                                       definition |-> <<"schema", call.dataString>>,
                                       hasBom |-> call.hasBom,
                                       charset |-> call.charset]]
         ELSE [call EXCEPT !.at = "threw"]
  /\ UNCHANGED <<world, connection, pc, failure, pending, running, fetched, schemas,
                 direct, deltaSt, sink>>

InitContentProbes ==
  /\ ProbeAlone
  /\ call \in CsvCalls \cup JsonCalls

NextContentProbes ==
  \/ CsvRespond
  \/ CsvTry
  \/ CsvReturn
  \/ JsonRespond
  \/ JsonParse

SpecContentProbes == InitContentProbes /\ [][NextContentProbes]_vars

\* ------------------------------------------------------------ reading the sink

Names == [d \in 1..N |-> Dataset(d).name]
\* the position of an identifier in the discovered identifier list
PositionOf(name) == CHOOSE p \in 1..N : Names[p] = name
\* the identifier an entity's location annotation points at
DatasetOf(entity) == entity.annotations.location[4]

IsDelta(m) == m.type = "delta"
IsFull(m) == m.type = "full"
FullSent == \E i \in 1..Len(sink) : IsFull(sink[i])
\* the entities a mutation carries
EntitiesOf(m) ==
  IF IsDelta(m) THEN [i \in 1..Len(m.added) |-> m.added[i].entity]
  ELSE [i \in 1..Len(m.entities) |-> m.entities[i].entity]
\* the Deltas sent so far, as the positions of their datasets
DeltaOrder ==
  LET ds == SelectSeq(sink, IsDelta)
  IN [i \in 1..Len(ds) |-> PositionOf(DatasetOf(ds[i].added[1].entity))]

\* --------------------------------------------------------------------- claims

\* C1: when run() has returned, the sink has received zero or more Deltas and
\* then exactly one Full; whenever a Full has been sent, it is the last mutation
\* sent and no Delta's applyMutation is still outstanding.
C1_DeltasThenOneFull ==
  /\ pc = "done" =>
       /\ Len(sink) >= 1
       /\ IsFull(sink[Len(sink)])
       /\ \A i \in 1..(Len(sink) - 1) : IsDelta(sink[i])
  /\ \A i \in 1..Len(sink) : IsFull(sink[i]) =>
       /\ i = Len(sink)
       /\ \A d \in 1..N : deltaSt[d] # "sending"

\* a run that returned after two Deltas and the Full
C1_Witness ==
  /\ pc = "done"
  /\ Len(sink) = 3
  /\ IsDelta(sink[1]) /\ IsDelta(sink[2]) /\ IsFull(sink[3])

\* C2: the Full lists the entities dataset by dataset in the order of the
\* discovered identifier list, whatever the order in which the Deltas were sent.
C2_FullInDiscoveryOrder ==
  \A i \in 1..Len(sink) : IsFull(sink[i]) =>
    LET es == EntitiesOf(sink[i])
    IN \A a, b \in 1..Len(es) :
         a < b => PositionOf(DatasetOf(es[a])) <= PositionOf(DatasetOf(es[b]))

\* a Full sent after the second dataset's Delta was sent before the first's
C2_Witness ==
  /\ FullSent
  /\ Len(DeltaOrder) = 2
  /\ DeltaOrder[1] > DeltaOrder[2]

\* the network operations of the dataset processing that are in flight: the
\* running queue tasks and the downloads started outside the queue
NetworkInFlight == Cardinality(running) + Cardinality(direct)

\* C3: every network operation of the dataset processing goes through the shared
\* queue, so at most Concurrency (10) of them are in flight at any time.
C3_AtMostTenInFlight == NetworkInFlight <= Concurrency

\* C4: a dataset's detail fetch that fails does not make run() fail: run() fails
\* only on the listing, on the missing connection (or on the sink).
C4_DetailFailureDoesNotAbort ==
  /\ (\E d \in 1..N : fetched[d] = "err") => pc # "failed"
  /\ failure # "detail"

\* one of the requests made for the resource raises an error
ErrorRaised(resource) ==
  \/ resource.probe = "throw"
  \/ /\ resource.probe = "notfound"
     /\ EndsWith(resource.url, <<".", "g", "e", "o", "j", "s", "o", "n">>)
     /\ ~resource.geoOk

\* the schemaInfo of a resource none of whose requests raises an error, from
\* the resource alone
SchemaAlone(resource) ==
  IF DatastoreInfoResult(resource) # Undefined THEN DatastoreInfoResult(resource)
  ELSE IF tryResourceUrl(resource.url) = AwaitFetch
    THEN [type |-> "json-schema", definition |-> GeoJsonText]
  ELSE OrUnknown(tryResourceUrl(resource.url))

\* every fetchDataset of the run resolved
AllFetched == N > 0 /\ \A d \in 1..N : fetched[d] = "ok"
\* a request made for a resource of dataset d is queued or in flight
RequestsOutstanding(d) ==
  \E j \in 1..NumResources(d) :
    InfoTask(d, j) \in running \/ <<d, j>> \in direct
    \/ \E i \in 1..Len(pending) : pending[i] = InfoTask(d, j)

\* C5: createApis never rejects and yields exactly one Api per resource, in
\* resource order; the Api of a resource one of whose requests raised an error has
\* spec.type "error", and the Api of every other resource is what that resource
\* alone determines, whatever happened to its siblings.
C5_ProbeErrorsStayLocal ==
  /\ \A d \in Accepted :
       (AllFetched /\ ~RequestsOutstanding(d)) => deltaSt[d] # "none"
  /\ \A i \in 1..Len(sink) : IsDelta(sink[i]) =>
       LET es == EntitiesOf(sink[i])
           d == PositionOf(DatasetOf(es[1]))
       IN /\ Len(es) = 2 + NumResources(d)
          /\ \A j \in 1..NumResources(d) :
               LET api == es[2 + j]
                   resource == Dataset(d).resources[j]
               IN /\ api.kind = "API"
                  /\ api.name = resource.id
                  /\ ErrorRaised(resource) => api.type = "error"
                  /\ ~ErrorRaised(resource) =>
                       api = createApi(Dataset(d), resource, SchemaAlone(resource))

\* a Delta with the Api of a resource whose probe raised and the Api of a sibling
\* that has its schema
C5_Witness ==
  \E i \in 1..Len(sink) :
    /\ IsDelta(sink[i])
    /\ Len(sink[i].added) = 4
    /\ \E a, b \in 3..4 :
         /\ sink[i].added[a].entity.type = "error"
         /\ sink[i].added[b].entity.type = "avro"

DeltaSent == \E i \in 1..Len(sink) : IsDelta(sink[i])

\* C6 as stated: a run that fails after some Deltas were sent has sent no Full;
\* every Delta has an empty removed list; a Full is sent only when the Delta of
\* every accepted dataset has been applied.
C6_NoFullInFailedRun ==
  /\ (pc = "failed" /\ DeltaSent) => ~FullSent
  /\ \A i \in 1..Len(sink) : IsDelta(sink[i]) => sink[i].removed = <<>>
  /\ FullSent => \A d \in Accepted : deltaSt[d] = "applied"

\* C6 as amended: a run that fails before it sends its Full (a detail fetch or a
\* Delta's applyMutation rejects) has sent no Full; every Delta has an empty
\* removed list; a Full is sent only when the Delta of every accepted dataset
\* has been applied.
C6_NoFullUnlessAllDeltasApplied ==
  /\ (pc = "failed" /\ failure # "full") => ~FullSent
  /\ \A i \in 1..Len(sink) : IsDelta(sink[i]) => sink[i].removed = <<>>
  /\ FullSent => \A d \in Accepted : deltaSt[d] = "applied"

\* a run that failed on one Delta after another dataset's Delta was applied
C6_Witness ==
  /\ pc = "failed"
  /\ failure = "delta"
  /\ \E d, e \in 1..N : deltaSt[d] = "applied" /\ deltaSt[e] = "failed"
  /\ ~FullSent

\* without a connection nothing of a run has happened but its failure
C7_NothingWithoutConnection ==
  ~connection =>
    /\ pc \in {"idle", "failed"}
    /\ pc = "failed" => failure = "Not initialized"
    /\ sink = <<>> /\ pending = <<>> /\ running = {} /\ direct = {}
    /\ \A d \in 1..N : fetched[d] = "none"

\* C7: run() without a connection fails with 'Not initialized', and then no
\* listing request is made, no task is added to the queue and no mutation is
\* sent; once connect has been called no run() fails with 'Not initialized'.
C7_NotConnectedPrecondition ==
  /\ []C7_NothingWithoutConnection
  /\ [][connection => (failure' = "Not initialized" => failure = "Not initialized")]_vars

\* run() was called before connect
C7_Witness ==
  /\ ~connection
  /\ pc = "failed"
  /\ failure = "Not initialized"

\* C8: when the listing call fails, run() fails with that error, no detail fetch
\* is added to the queue and neither a Delta nor a Full is sent.
C8_ListingFailureIsFatal ==
  ~world.listOk =>
    /\ pc \in {"idle", "listing", "failed"}
    /\ (pc = "failed" /\ connection /\ failure # "Not initialized") => failure = "listing"
    /\ sink = <<>> /\ pending = <<>> /\ running = {}
    /\ \A d \in 1..N : fetched[d] = "none"

\* a connected run whose listing failed
C8_Witness ==
  /\ ~world.listOk
  /\ pc = "failed"
  /\ failure = "listing"

\* the elements of a sequence
Range(seq) == { seq[i] : i \in 1..Len(seq) }

DatasetsIn(m) == { DatasetOf(EntitiesOf(m)[i]) : i \in 1..Len(EntitiesOf(m)) }

\* C9: a fetched detail record whose type is not "dataset" contributes nothing:
\* no schema probe is added to the queue for its resources, no Delta is sent
\* for it, no mutation carries an entity of it; the Full carries the entities of
\* exactly the records of type "dataset".
C9_OtherTypesContributeNothing ==
  /\ \A d \in 1..N : Dataset(d).type # "dataset" =>
       /\ \A j \in 1..NumResources(d) :
            /\ InfoTask(d, j) \notin running
            /\ \A i \in 1..Len(pending) : pending[i] # InfoTask(d, j)
            /\ schemas[<<d, j>>] = NoSchema
       /\ deltaSt[d] = "none"
       /\ \A i \in 1..Len(sink) : Dataset(d).name \notin DatasetsIn(sink[i])
  /\ \A i \in 1..Len(sink) : IsFull(sink[i]) =>
       DatasetsIn(sink[i]) = { Dataset(d).name : d \in { e \in 1..N : Dataset(e).type = "dataset" } }

\* C11: a Full never carries two entities of the same kind with the same
\* metadata.name, also when several datasets belong to the same organization.
C11_NamesUniqueInFull ==
  \A i \in 1..Len(sink) : IsFull(sink[i]) =>
    LET es == EntitiesOf(sink[i])
    IN \A a, b \in 1..Len(es) :
         (a # b /\ es[a].kind = es[b].kind) => es[a].name # es[b].name

\* a tag is in lower case
IsLowerCase(tag) == toLowerCase(tag) = tag

\* C12: in every entity of every Delta and Full, of either provider, the tags
\* contain no duplicate and every tag is in lower case, whatever the tag names
\* of the upstream record.
C12_TagsLowerCaseUnique ==
  \A i \in 1..Len(sink) :
    LET es == EntitiesOf(sink[i])
    IN \A c \in 1..Len(es) : "tags" \in DOMAIN es[c] =>
         /\ \A t \in 1..Len(es[c].tags) : IsLowerCase(es[c].tags[t])
         /\ \A t, u \in 1..Len(es[c].tags) : t # u => es[c].tags[t] # es[c].tags[u]

\* C13: every entity of every Delta and Full (Group, Component and Api alike)
\* carries a location and an origin-location annotation, equal and pointing at
\* the show endpoint of its dataset, and a view-url annotation.
C13_AnnotationsComplete ==
  \A i \in 1..Len(sink) :
    LET es == EntitiesOf(sink[i])
    IN \A c \in 1..Len(es) :
         /\ es[c].annotations.location = es[c].annotations.originLocation
         /\ \E d \in Accepted :
              /\ es[c].annotations.location = <<"url:", API_SHOW, "?id=", Dataset(d).name>>
              /\ es[c].kind = "Component" => es[c].name = Dataset(d).name
              /\ es[c].kind = "API" => es[c].system = Dataset(d).name
              /\ es[c].kind = "Group" => es[c].name = Dataset(d).org
         /\ "viewUrl" \in DOMAIN es[c].annotations

\* the schemaInfo the answers to the requests of one resource determine
SchemaOfAnswers(resource) ==
  IF ErrorRaised(resource) THEN [type |-> "error", definition |-> <<"{}">>]
  ELSE SchemaAlone(resource)

\* the entity list the upstream data determine: per accepted dataset, in
\* listing order, its Group, its Component and the Apis of its resources
EntitiesOfUpstream ==
  LET sch == [k \in Keys |-> SchemaOfAnswers(Dataset(k[1]).resources[k[2]])]
  IN WithLocationKey(
       Flat([i \in 1..Len(AcceptedSeq) |-> DatasetEntities(AcceptedSeq[i], sch)]))

\* C14: the entity list of a Full is a function of the upstream data alone
\* (identifier list and the answer to each request): every run against the same
\* upstream data sends the same list, whatever the order in which the fetch
\* tasks and the Deltas completed.
C14_FullDeterminedByUpstream ==
  \A i \in 1..Len(sink) : IsFull(sink[i]) => sink[i].entities = EntitiesOfUpstream

\* a Full sent in a run whose second dataset was ready before the first, with
\* the Api of a failed probe
C14_Witness ==
  /\ FullSent
  /\ DeltaOrder = <<2, 1>>
  /\ \E k \in Keys : schemas[k].type = "error"

\* the schema probe of resource j of dataset d has been added to the queue
ProbeStarted(d, j) ==
  \/ InfoTask(d, j) \in running
  \/ \E i \in 1..Len(pending) : pending[i] = InfoTask(d, j)
  \/ <<d, j>> \in direct
  \/ schemas[<<d, j>>] # NoSchema

\* C15: the pipeline of an accepted dataset depends on its own progress alone:
\* once its detail fetch has resolved its schema probes are started, and once
\* they have all settled (at once when it has no resource) its Delta is sent,
\* whatever the state of the other datasets' detail fetches and probes.
C15_DeltaIndependentOfOthers ==
  \A d \in 1..N : (Filter(Dataset(d)) /\ fetched[d] = "ok") =>
    /\ \A j \in 1..NumResources(d) : ProbeStarted(d, j)
    /\ ApisResolved(d, schemas) => deltaSt[d] # "none"

\* the structured probe of resource j of dataset d is queued or in flight
ProbeOutstanding(d, j) ==
  \/ InfoTask(d, j) \in running
  \/ \E i \in 1..Len(pending) : pending[i] = InfoTask(d, j)

\* C16: per resource the structured probe comes first and its schema wins:
\* a content request is in flight, or a schemaInfo is there, only when the
\* resource's structured probe has completed; a content request is made only
\* when that probe yielded nothing; when it yielded a schema the Api has
\* spec.type "avro" with that definition.
C16_StructuredProbeFirst ==
  \A k \in Keys :
    LET resource == Dataset(k[1]).resources[k[2]]
    IN /\ (k \in direct \/ schemas[k] # NoSchema) => ~ProbeOutstanding(k[1], k[2])
       /\ k \in direct => resource.probe = "notfound"
       /\ resource.probe = "schema" =>
            /\ k \notin direct
            /\ schemas[k] \in {NoSchema, [type |-> "avro", definition |-> <<"Row", resource.id>>]}
            /\ \A i \in 1..Len(sink) : \A c \in 1..Len(EntitiesOf(sink[i])) :
                 LET entity == EntitiesOf(sink[i])[c]
                 IN (entity.kind = "API" /\ entity.name = resource.id) =>
                      /\ entity.type = "avro"
                      /\ entity.definition = <<"Row", resource.id>>

\* the Delta of a dataset with a resource whose structured probe yielded a
\* schema and whose URL has an extension of the content-based probing
C16_Witness ==
  \E k \in Keys :
    /\ Dataset(k[1]).resources[k[2]].probe = "schema"
    /\ tryResourceUrl(Dataset(k[1]).resources[k[2]].url) # Undefined
    /\ schemas[k].type = "avro"
    /\ deltaSt[k[1]] = "applied"

\* C17: for an accepted dataset with one resource whose structured probe
\* yields nothing and whose URL ends in ".csv", the Delta (and the Full of a run
\* with that dataset alone) carries 1 Group, 1 Component and 1 Api, and the Api
\* has spec.type "avro" with the definition inferred from the content.
C17_CsvResourceYieldsAvro ==
  \A d \in Accepted :
    (/\ NumResources(d) = 1
     /\ Dataset(d).resources[1].probe = "notfound"
     /\ EndsWith(Dataset(d).resources[1].url, <<".", "c", "s", "v">>)) =>
      \A i \in 1..Len(sink) :
        LET es == SelectSeq(EntitiesOf(sink[i]), LAMBDA x : DatasetOf(x) = Dataset(d).name)
        IN es # <<>> =>
             /\ Len(es) = 3
             /\ es[1].kind = "Group" /\ es[2].kind = "Component" /\ es[3].kind = "API"
             /\ es[3].type = "avro"
             /\ es[3].definition \notin {<<"enable">>, <<"unknown">>}

\* the combinations in the order in which the claim lists them
ClaimedOrder ==
  << <<";", "strict">>, <<",", "strict">>, <<"|", "strict">>, <<"\t", "strict">>,
     <<";", "relaxed">>, <<",", "relaxed">>, <<"|", "relaxed">>, <<"\t", "relaxed">> >>

\* the combinations under which the text of the call parses to more than one
\* column, and to exactly one
ManyColumns == { o \in 1..8 : ~call.text[o].threw /\ Len(call.text[o].headers) > 1 }
OneColumn == { o \in 1..8 : ~call.text[o].threw /\ Len(call.text[o].headers) = 1 }

\* C18: tryResourceCsvUrl on a 200 response returns the schema of the first
\* combination, in the fixed order, that parses to more than one column, and
\* tries none after it; without such a combination it returns the single field
\* of a combination that parsed to one column, or an empty field list when no
\* combination parsed. The result is a function of the parse outcomes alone.
C18_CsvFirstManyColumnsWins ==
  /\ \A o \in 1..8 :
       /\ TryOptions[o].delimiter = ClaimedOrder[o][1]
       /\ TryOptions[o].relax_quotes = (ClaimedOrder[o][2] = "relaxed")
  /\ (call.fn = "csv" /\ call.at = "returned" /\ call.status = 200) =>
       /\ call.result.type = "avro"
       /\ IF ManyColumns # {}
            THEN LET w == CHOOSE o \in ManyColumns : \A x \in ManyColumns : o <= x
                 IN /\ call.i = w
                    /\ call.result.definition[3] = ClaimedOrder[w][1]
                    /\ Len(call.result.definition[4]) = Len(call.text[w].headers)
                    /\ \A c \in 1..Len(call.text[w].headers) :
                         call.result.definition[4][c].name = call.text[w].headers[c]
          ELSE IF OneColumn # {}
            THEN /\ call.i = 9
                 /\ \E o \in OneColumn :
                      call.result.definition[4] =
                        << [name |-> call.text[o].headers[1], type |-> "string"] >>
          ELSE /\ call.i = 9
               /\ call.result.definition[4] = <<>>

\* a call that returned the schema of the relaxed "," after a combination that
\* threw and one that parsed to one column
C18_Witness ==
  /\ call.fn = "csv" /\ call.at = "returned" /\ call.foundOk
  /\ call.i = 6
  /\ call.result.definition[3] = ","
  /\ \E o \in OneColumn : o < 6
  /\ \E o \in 1..5 : call.text[o].threw

\* the response body of the call starts with the bytes of prefix
StartsWith(prefix) ==
  /\ Len(call.data) >= Len(prefix)
  /\ SubSeq(call.data, 1, Len(prefix)) = prefix

\* C19: tryResourceJsonUrl on a 200 response: a body that starts with FF FE
\* gives hasBom = true and charset "utf-16", one that starts with EF BB BF
\* hasBom = true and charset "utf-8-sig", any other body (also one of fewer
\* than two bytes) hasBom = false; the bytes decoded are the body without the
\* mark; a result returned has type "json-schema" and carries these values.
C19_BomDetection ==
  (call.fn = "json" /\ call.status = 200 /\ call.at \in {"decoded", "returned", "threw"}) =>
    /\ StartsWith(<<255, 254>>) =>
         /\ call.hasBom /\ call.charset = "utf-16"
         /\ call.sliced = SubSeq(call.data, 3, Len(call.data))
    /\ StartsWith(<<239, 187, 191>>) =>
         /\ call.hasBom /\ call.charset = "utf-8-sig"
         /\ call.sliced = SubSeq(call.data, 4, Len(call.data))
    /\ (~StartsWith(<<255, 254>>) /\ ~StartsWith(<<239, 187, 191>>)) =>
         /\ ~call.hasBom
         /\ call.sliced = call.data
    /\ call.at = "returned" =>
         /\ call.result.type = "json-schema"
         /\ call.result.hasBom = call.hasBom
         /\ call.result.charset = call.charset

\* a call that returned for a body of the UTF-16 mark and one more byte
C19_Witness ==
  /\ call.fn = "json" /\ call.at = "returned"
  /\ call.data = <<255, 254, 123>>
  /\ call.result.hasBom /\ call.result.charset = "utf-16"

\* the content-based probing of the resource raises an error
ContentProbeRaises(resource) ==
  /\ EndsWith(resource.url, <<".", "g", "e", "o", "j", "s", "o", "n">>)
  /\ ~resource.geoOk

\* C20: in every Delta, the Api of a resource whose structured probe answered
\* 404 has spec.type "error" if and only if its content-based probing raised,
\* and "unknown" when the content-based probing yields nothing; the Api of
\* every sibling is what the answers to the sibling's own requests determine.
C20_NotFoundIsNotAnError ==
  \A i \in 1..Len(sink) : IsDelta(sink[i]) =>
    LET es == EntitiesOf(sink[i])
        d == PositionOf(DatasetOf(es[1]))
    IN \A j \in 1..NumResources(d) :
         LET resource == Dataset(d).resources[j]
         IN resource.probe = "notfound" =>
              /\ es[2 + j].type = "error" <=> ContentProbeRaises(resource)
              /\ (tryResourceUrl(resource.url) = Undefined) => es[2 + j].type = "unknown"
              /\ \A k \in 1..NumResources(d) : k # j =>
                   es[2 + k] = createApi(Dataset(d), Dataset(d).resources[k],
                                         SchemaOfAnswers(Dataset(d).resources[k]))

\* the Delta of a dataset with two resources whose structured probes answered
\* 404: the content probing of one raised, that of the other yielded nothing
C20_Witness ==
  \E i \in 1..Len(sink) :
    /\ IsDelta(sink[i])
    /\ Len(sink[i].added) = 4
    /\ sink[i].added[3].entity.type = "error"
    /\ sink[i].added[4].entity.type = "unknown"
    /\ \A j \in 1..2 :
         Dataset(PositionOf(DatasetOf(sink[i].added[1].entity))).resources[j].probe = "notfound"

\* the resources for which this run has requested the GeoJSON schema document:
\* the download is in flight, or it settled and the schemaInfo is there
GeoJsonRequests ==
  { k \in Keys :
      /\ Dataset(k[1]).resources[k[2]].probe = "notfound"
      /\ tryResourceUrl(Dataset(k[1]).resources[k[2]].url) = AwaitFetch
      /\ k \in direct \/ schemas[k] # NoSchema }

\* C21: in one run at most one request for the GeoJSON schema document is
\* made, however many resources have a URL ending in ".geojson".
C21_GeoJsonFetchedOnce == Cardinality(GeoJsonRequests) <= 1

QueueBusy == pending # <<>> \/ running # {}

\* a task of the queue has failed in this run
TaskFailed ==
  \/ \E d \in 1..N : fetched[d] = "err"
  \/ \E k \in Keys : /\ Dataset(k[1]).resources[k[2]].probe = "throw"
                       /\ schemas[k] # NoSchema

\* C22: a task of the queue that fails releases its slot and reaches its own
\* submitter alone: no task waits while a slot is free, a failed task is out of
\* the queue, the schemaInfo of every other resource is what its own answers
\* determine, and after a failure every task still queued or in flight is
\* started and completes.
C22_FailedTaskReleasesSlot ==
  /\ [](/\ pending # <<>> => Cardinality(running) = Concurrency
        /\ \A d \in 1..N : fetched[d] = "err" => ShowTask(d) \notin running
        /\ \A k \in Keys :
             LET resource == Dataset(k[1]).resources[k[2]]
             IN /\ (resource.probe = "throw" /\ schemas[k] # NoSchema) =>
                     ~ProbeOutstanding(k[1], k[2])
                /\ (~ErrorRaised(resource) /\ schemas[k] # NoSchema) =>
                     schemas[k] = SchemaAlone(resource))
  /\ (TaskFailed /\ QueueBusy) ~> ~QueueBusy

\* the probe of one resource rejected while a sibling's waited for a slot, and
\* every probe of the dataset has completed
C22_Witness ==
  /\ N >= 1
  /\ NumResources(1) > Concurrency
  /\ schemas[<<1, 2>>].type = "error"
  /\ ~QueueBusy
  /\ \A k \in Keys : schemas[k] # NoSchema

\* the task is queued or in flight
InQueue(task) == task \in running \/ \E i \in 1..Len(pending) : pending[i] = task
\* the task is added to the queue in this step
Added(task) ==
  /\ ~InQueue(task)
  /\ task \in running' \/ \E i \in 1..Len(pending') : pending'[i] = task

\* C23: within one run a detail fetch and a structured probe are attempted at
\* most once: a task is added to the queue only when it has not been attempted
\* in this run, a settled task (resolved or failed) is not in the queue, and
\* what it settled to stays until the next run starts.
C23_NoRetry ==
  [][/\ \A d \in 1..N :
          /\ Added(ShowTask(d)) => fetched[d] = "none"
          /\ fetched[d] \in {"ok", "err"} =>
               /\ ~InQueue(ShowTask(d))
               /\ fetched'[d] \in {fetched[d], "none"}
     /\ \A k \in Keys :
          /\ Added(InfoTask(k[1], k[2])) => (schemas[k] = NoSchema /\ k \notin direct)
          /\ (schemas[k] # NoSchema \/ k \in direct) =>
               /\ ~InQueue(InfoTask(k[1], k[2]))
               /\ ~Added(InfoTask(k[1], k[2]))
          /\ schemas[k] # NoSchema => schemas'[k] \in {schemas[k], NoSchema}]_vars

\* a run in which one detail fetch failed and another resolved, with nothing
\* left in the queue
C23_Witness ==
  /\ pc = "failed" /\ failure = "detail"
  /\ \E d, e \in 1..N : fetched[d] = "err" /\ fetched[e] = "ok"
  /\ ~QueueBusy

\* every entity of every mutation sent so far
SentEntities == UNION {Range(EntitiesOf(sink[i])) : i \in 1..Len(sink)}
HasLifecycle(entity) == entity.kind \in {"Component", "API"}
\* the upstream state an entity's lifecycle is computed from: the state of the
\* resource the entity is named after, else the state of its dataset
SourceState(entity) ==
  LET dataset == Dataset(PositionOf(DatasetOf(entity)))
      own == {j \in 1..Len(dataset.resources) : dataset.resources[j].id = entity.name}
  IN IF own = {} THEN dataset.state
     ELSE dataset.resources[CHOOSE j \in own : TRUE].state

\* C24: every Component and Api sent has lifecycle "production" exactly when
\* the state of its source (the dataset for a Component, the resource for an
\* Api) is "active", and "experimental" otherwise.
C24_LifecycleFromState ==
  \A entity \in SentEntities : HasLifecycle(entity) =>
    /\ entity.lifecycle \in {"production", "experimental"}
    /\ entity.lifecycle = "production" <=> SourceState(entity) = "active"

\* a Full with Components and Apis of both lifecycles
C24_Witness ==
  /\ FullSent
  /\ \A kind \in {"Component", "API"} :
       \A lifecycle \in {"production", "experimental"} :
         \E entity \in Range(EntitiesOf(sink[Len(sink)])) :
           entity.kind = kind /\ entity.lifecycle = lifecycle

\* the positions in the sink of the Deltas that carry an entity of dataset d
DeltasOf(d) ==
  {i \in 1..Len(sink) :
     /\ IsDelta(sink[i])
     /\ \E entity \in Range(EntitiesOf(sink[i])) : DatasetOf(entity) = Dataset(d).name}

\* C25: a dataset of type "dataset" gets one Delta, as soon as the schemaInfo of
\* its last resource is there, and never a second one; any other identifier
\* gets none; when the Full is sent every accepted dataset has its Delta. The
\* Delta adds the dataset's Group, its Component and one Api per resource in
\* resource order, all of that dataset, and removes nothing.
C25_OneDeltaPerAcceptedDataset ==
  /\ \A d \in 1..N :
       /\ Cardinality(DeltasOf(d)) = IF deltaSt[d] # "none" THEN 1 ELSE 0
       /\ Dataset(d).type # "dataset" => DeltasOf(d) = {}
       /\ (Dataset(d).type = "dataset" /\ (FullSent \/ pc = "done")) => DeltasOf(d) # {}
       /\ (Dataset(d).type = "dataset" /\ NumResources(d) > 0 /\ ApisResolved(d, schemas))
            => DeltasOf(d) # {}
       /\ \A i \in DeltasOf(d) :
            LET entities == EntitiesOf(sink[i])
            IN /\ Len(entities) = 2 + NumResources(d)
               /\ entities[1].kind = "Group"
               /\ entities[1].name = Dataset(d).org
               /\ entities[2].kind = "Component"
               /\ entities[2].name = Dataset(d).name
               /\ \A j \in 1..NumResources(d) :
                    /\ entities[2 + j].kind = "API"
                    /\ entities[2 + j].name = Dataset(d).resources[j].id
               /\ \A j \in 1..Len(entities) : DatasetOf(entities[j]) = Dataset(d).name
               /\ sink[i].removed = <<>>

\* a finished run over two identifiers of which one is not a dataset and the
\* other has two resources: one Delta of four entities, then the Full
C25_Witness ==
  /\ pc = "done"
  /\ N = 2
  /\ \E d, e \in 1..N :
       /\ Dataset(d).type = "dataset" /\ NumResources(d) = 2
       /\ Dataset(e).type # "dataset"
       /\ Cardinality(DeltasOf(d)) = 1
  /\ Len(sink) = 2

RECURSIVE AddedFrom(_)
\* the added lists of the Deltas sent, concatenated in the order of the
\* discovered identifier list, from position d on
AddedFrom(d) ==
  IF d > N THEN <<>>
  ELSE Flat([i \in 1..Cardinality(DeltasOf(d)) |->
               sink[CHOOSE k \in DeltasOf(d) : TRUE].added]) \o AddedFrom(d + 1)

\* C26: once the Full is sent, its entity list is the concatenation, in
\* discovery order, of the added lists of the Deltas sent in the run, and every
\* Delta in the sink is one of them.
C26_FullIsConcatenationOfDeltas ==
  FullSent =>
    /\ sink[Len(sink)].entities = AddedFrom(1)
    /\ \A i \in 1..(Len(sink) - 1) : \E d \in 1..N : i \in DeltasOf(d)

\* a finished run whose two Deltas were sent against discovery order
C26_Witness ==
  /\ pc = "done"
  /\ Len(sink) = 3
  /\ DeltaOrder = <<2, 1>>
  /\ Len(sink[3].entities) = Len(sink[1].added) + Len(sink[2].added)

\* the upstream resource an Api entity was built from
ResourceOf(entity) ==
  LET dataset == Dataset(PositionOf(DatasetOf(entity)))
  IN dataset.resources[CHOOSE j \in 1..Len(dataset.resources) :
                         dataset.resources[j].id = entity.name]
HasExtension(url, extension) == EndsWith(url, <<".">> \o extension)

UpstreamAnswers == world.listOk /\ \A d \in 1..N : Dataset(d).fetch = "ok"
\* an applyMutation of this run was rejected
SinkRejected == failure \in {"delta", "full"} \/ \E d \in 1..N : deltaSt[d] = "failed"

\* C28: under weak fairness of the completions, a connected run whose listing
\* and detail requests are answered ends with Done unless the sink rejects a
\* mutation, whatever the number of datasets and resources; a task waits only
\* while tasks run, the queue always drains, and when the Full is sent no task
\* is queued or in flight.
C28_RunTerminates ==
  /\ [](pending # <<>> => running # {})
  /\ [](FullSent => (~QueueBusy /\ direct = {}))
  /\ QueueBusy ~> ~QueueBusy
  /\ (pc = "listing" /\ UpstreamAnswers) ~> (pc = "done" \/ SinkRejected)

\* a run over a dataset with more resources than the queue runs at once has
\* returned after its Full
C28_Witness ==
  /\ N >= 1
  /\ NumResources(1) > Concurrency
  /\ pc = "done"
  /\ FullSent
  /\ ~SinkRejected

HasOwner(entity) == entity.kind \in {"Component", "API"}
\* group is the Group entity built from the same upstream record as entity
OwnerGroup(group, entity) ==
  /\ group.kind = "Group"
  /\ group.annotations.location = entity.annotations.location
  /\ group.name = entity.owner

\* C29: in every mutation sent, each Component and each Api is owned by a
\* Group of the same mutation, the one built from the same upstream record: its
\* owner is that Group's name.
C29_OwnerIsGroupOfSameMutation ==
  \A i \in 1..Len(sink) :
    \A entity \in Range(EntitiesOf(sink[i])) : HasOwner(entity) =>
      \E group \in Range(EntitiesOf(sink[i])) : OwnerGroup(group, entity)

\* a Full with the Groups of two organizations and a Component and an Api
\* owned by each
C29_Witness ==
  /\ FullSent
  /\ \E g, h \in Range(EntitiesOf(sink[Len(sink)])) :
       /\ g.kind = "Group" /\ h.kind = "Group" /\ g.name # h.name
       /\ \A group \in {g, h} : \A kind \in {"Component", "API"} :
            \E entity \in Range(EntitiesOf(sink[Len(sink)])) :
              entity.kind = kind /\ OwnerGroup(group, entity)

====
